---- MODULE Spec2Model ----
(***************************************************************************)
(* Sequence labelling with an HMM and a feature-only linear-chain CRF      *)
(* (models.py): the Viterbi decoders, the HMM trainer, the CRF             *)
(* forward-backward recursion and the CRF trainer.                         *)
(*                                                                         *)
(* Conventions.  Python lists and numpy arrays are functions over 0..n-1;  *)
(* an Indexer is the sequence of its objects in insertion order, so that   *)
(* object k of the Indexer has index k-1.  A word is the tuple of its      *)
(* characters.  A BIO tag is the record of its prefix and its label.       *)
(* Log-scores are integers; float("-inf") is the absorbing value NegInf.   *)
(***************************************************************************)
EXTENDS Integers, Sequences, FiniteSets, TLC

VARIABLES
    \* ---- decoding (HmmNerModel.decode, viterbi, CrfNerModel.decode)
    sentence_tokens,   \* the tokens handed to the decoders
    ner_model,         \* the model decoded with: an HmmNerModel (the two indexers
                       \* and the three tables) or a CrfNerModel (tag_indexer,
                       \* feature_indexer, weights)
    result,            \* the last decoder call (op) and what it returned
    memo,              \* per decoder, what its first call returned (<<>>: none yet)
    \* ---- training (train_hmm_model, train_crf_model)
    sentences,         \* the training corpus: a list of LabeledSentence
    hmm_train,         \* train_hmm_model: its position (pc) and its locals
    crf_train          \* train_crf_model: its position (pc) and its locals

dec_vars == <<sentence_tokens, ner_model, result, memo>>
train_vars == <<sentences, hmm_train, crf_train>>
vars == <<dec_vars, train_vars>>

----------------------------------------------------------------------------
(* Small generic helpers                                                   *)

Range(f) == {f[x] : x \in DOMAIN f}

RECURSIVE Pow(_, _)
Pow(b, e) == IF e = 0 THEN 1 ELSE b * Pow(b, e - 1)

\* f[lo] + ... + f[hi]
RECURSIVE SumOver(_, _, _)
SumOver(f, lo, hi) == IF lo > hi THEN 0 ELSE f[lo] + SumOver(f, lo + 1, hi)

\* All sequences over S of length lo..hi.
SeqsOf(S, lo, hi) == UNION {[1..n -> S] : n \in lo..hi}

----------------------------------------------------------------------------
(* Indexer (utils): a bijection between objects and 0..len-1               *)

Indexer_len(ix) == Len(ix)
contains(ix, obj) == \E k \in 1..Len(ix) : ix[k] = obj
index_of(ix, obj) ==
    LET at == {k \in 1..Len(ix) : ix[k] = obj}
    IN IF at = {} THEN -1 ELSE (CHOOSE k \in at : TRUE) - 1
get_object(ix, idx) == ix[idx + 1]
\* add_and_get_index returns the index and leaves the Indexer grown by the
\* object when it was not there.
add_and_get_index(ix, obj) ==
    LET idx == index_of(ix, obj)
    IN IF idx # -1 THEN [indexer |-> ix, index |-> idx]
       ELSE [indexer |-> Append(ix, obj), index |-> Len(ix)]

\* The Indexer holding the objects of a sequence, in order of first occurrence.
RECURSIVE IndexAll(_, _)
IndexAll(ix, objs) ==
    IF objs = <<>> THEN ix
    ELSE IndexAll(add_and_get_index(ix, Head(objs)).indexer, Tail(objs))

----------------------------------------------------------------------------
(* BIO tags (nerdata)                                                      *)

Tag(bio, label) == [bio |-> bio, label |-> label]
O_TAG == Tag("O", "")
B_PER == Tag("B", "PER")
I_PER == Tag("I", "PER")
B_LOC == Tag("B", "LOC")
I_LOC == Tag("I", "LOC")

isB(tag) == tag.bio = "B"
isI(tag) == tag.bio = "I"
isO(tag) == tag.bio = "O"
get_tag_label(tag) == tag.label

----------------------------------------------------------------------------
(* Scores: floats in log space, with float("-inf")                         *)

NegInf == -1000000

\* x + y of two floats of which either may be -inf (never +inf here).
Plus(x, y) == IF x = NegInf \/ y = NegInf THEN NegInf ELSE x + y

\* The numpy array holding the values of f: the same function, with every cell
\* computed once when the array is built (as the loops of the source fill it).
np_array(f) == f @@ <<>>

\* np.max and np.argmax of an array a over 0..n-1: argmax is the first index
\* holding the maximum.
np_max(a, n) == CHOOSE m \in {a[k] : k \in 0..n-1} : \A k \in 0..n-1 : a[k] <= m
\* Mutant of np_argmax: the last index holding the maximum.
np_argmax_mutant(a, n) ==
    CHOOSE k \in 0..n-1 : /\ \A j \in 0..n-1 : a[j] <= a[k]
                          /\ \A j \in (k + 1)..(n - 1) : a[j] < a[k]
np_argmax(a, n) ==
    CHOOSE k \in 0..n-1 : /\ \A j \in 0..n-1 : a[j] <= a[k]
                          /\ \A j \in 0..k-1 : a[j] < a[k]

----------------------------------------------------------------------------
(* Tokens and words                                                        *)

Token(word, pos) == [word |-> word, pos |-> pos]
UNK == <<"U", "N", "K">>
W_Phil == <<"P", "h", "i", "l">>
W_is == <<"i", "s">>
W_here == <<"h", "e", "r", "e">>
W_India == <<"I", "n", "d", "i", "a">>
W_7 == <<"7">>

UpperChars == {"A", "B", "C", "D", "E", "F", "G", "H", "I", "J", "K", "L", "M",
               "N", "O", "P", "Q", "R", "S", "T", "U", "V", "W", "X", "Y", "Z"}
LowerChars == {"a", "b", "c", "d", "e", "f", "g", "h", "i", "j", "k", "l", "m",
               "n", "o", "p", "q", "r", "s", "t", "u", "v", "w", "x", "y", "z"}
DigitChars == {"0", "1", "2", "3", "4", "5", "6", "7", "8", "9"}
isupper(c) == c \in UpperChars
islower(c) == c \in LowerChars
isdigit(c) == c \in DigitChars

----------------------------------------------------------------------------
(* ProbabilisticSequenceScorer                                             *)

score_init(scorer, tokens, tag_idx) == scorer.init_log_probs[tag_idx]

score_transition(scorer, tokens, prev_tag_idx, curr_tag_idx) ==
    scorer.transition_log_probs[prev_tag_idx][curr_tag_idx]

\* The emission column of a word: its own when the word indexer contains it,
\* the column of "UNK" otherwise.
emission_word_idx(word_indexer, word) ==
    IF contains(word_indexer, word) THEN index_of(word_indexer, word)
    ELSE index_of(word_indexer, UNK)

score_emission(scorer, tokens, tag_idx, word_posn) ==
    scorer.emission_log_probs[tag_idx]
        [emission_word_idx(scorer.word_indexer, tokens[word_posn + 1].word)]

ProbabilisticSequenceScorer(model) ==
    [tag_indexer |-> model.tag_indexer, word_indexer |-> model.word_indexer,
     init_log_probs |-> model.init_log_probs,
     transition_log_probs |-> model.transition_log_probs,
     emission_log_probs |-> model.emission_log_probs]

----------------------------------------------------------------------------
(* HmmNerModel.decode.  In this method T is the number of tokens and N the *)
(* number of tags; the tables are indexed [position][tag] here.            *)

HmmInitialization(scorer, tokens, N) ==
    np_array([s \in 0..N-1 |-> Plus(score_init(scorer, tokens, s),
                                    score_emission(scorer, tokens, s, 0))])

\* Mutant of HmmCell: the backpointer is the argmax of the previous column
\* alone, the transition score left out.
HmmCell_mutant(scorer, tokens, N, prev_column, s, t) ==
    LET bpt == np_array([sft \in 0..N-1 |->
                   Plus(prev_column[sft], score_transition(scorer, tokens, sft, s))])
        vite == np_array([sft \in 0..N-1 |->
                   Plus(bpt[sft], score_emission(scorer, tokens, s, t))])
    IN [score |-> np_max(vite, N), back |-> np_argmax(prev_column, N)]

\* vite and bpt of one (t, s) iteration; the cell keeps np.max(vite) and the
\* backpointer np.argmax(bpt), the argmax of the pre-emission quantity.
HmmCell(scorer, tokens, N, prev_column, s, t) ==
    LET bpt == np_array([sft \in 0..N-1 |->
                   Plus(prev_column[sft], score_transition(scorer, tokens, sft, s))])
        vite == np_array([sft \in 0..N-1 |->
                   Plus(bpt[sft], score_emission(scorer, tokens, s, t))])
    IN [score |-> np_max(vite, N), back |-> np_argmax(bpt, N)]

RECURSIVE HmmRecursion(_, _, _, _, _, _, _)
HmmRecursion(scorer, tokens, N, t, viterbi_table, backpointer, steps) ==
    IF t >= Len(tokens)
    THEN [viterbi_table |-> viterbi_table, backpointer |-> backpointer,
          steps |-> steps]
    ELSE LET cells == np_array([s \in 0..N-1 |->
                          HmmCell(scorer, tokens, N, viterbi_table[t - 1], s, t)])
         IN HmmRecursion(scorer, tokens, N, t + 1,
                (t :> np_array([s \in 0..N-1 |-> cells[s].score])) @@ viterbi_table,
                (t :> np_array([s \in 0..N-1 |-> cells[s].back])) @@ backpointer,
                steps + N)

\* for t in range(1, T): append the backpointer of the last appended tag at
\* position T - t.  pred_tags is built back to front.
RECURSIVE HmmBacktrace(_, _, _, _, _, _)
HmmBacktrace(tag_indexer, backpointer, T, t, pred_tags, steps) ==
    IF t >= T THEN [pred_tags |-> pred_tags, steps |-> steps]
    ELSE HmmBacktrace(tag_indexer, backpointer, T, t + 1,
            Append(pred_tags,
                   get_object(tag_indexer,
                       backpointer[T - t]
                           [index_of(tag_indexer, pred_tags[Len(pred_tags)])])),
            steps + 1)

reversed(s) == [k \in 1..Len(s) |-> s[Len(s) + 1 - k]]

HmmNerModel_decode(model, tokens) ==
    LET scorer == ProbabilisticSequenceScorer(model)
        T == Len(tokens)
        N == Indexer_len(model.tag_indexer)
        rec == HmmRecursion(scorer, tokens, N, 1,
                   (0 :> HmmInitialization(scorer, tokens, N)),
                   (0 :> [s \in 0..N-1 |-> 0]), 0)
        bt == HmmBacktrace(model.tag_indexer, rec.backpointer, T, 1,
                  <<get_object(model.tag_indexer,
                               np_argmax(rec.viterbi_table[T - 1], N))>>, 0)
    IN [status |-> "ok", pred_tags |-> reversed(bt.pred_tags),
        recursion_steps |-> rec.steps, backtrace_steps |-> bt.steps]

----------------------------------------------------------------------------
(* viterbi(sentence_tokens, scorer).  Here N is the number of tokens and T *)
(* the number of tags; v and y_pred are indexed [position][tag].           *)

ViterbiCell(scorer, tokens, T, v_prev, y, i) ==
    LET previous_prob == np_array([y_prev \in 0..T-1 |->
            Plus(score_transition(scorer, tokens, y_prev, y), v_prev[y_prev])])
    IN [score |-> Plus(score_emission(scorer, tokens, y, i),
                       np_max(previous_prob, T)),
        back |-> np_argmax(previous_prob, T)]

RECURSIVE ViterbiRecursion(_, _, _, _, _, _, _)
ViterbiRecursion(scorer, tokens, T, i, v, y_pred, steps) ==
    IF i >= Len(tokens) THEN [v |-> v, y_pred |-> y_pred, steps |-> steps]
    ELSE LET cells == np_array([y \in 0..T-1 |->
                          ViterbiCell(scorer, tokens, T, v[i - 1], y, i)])
         IN ViterbiRecursion(scorer, tokens, T, i + 1,
                (i :> np_array([y \in 0..T-1 |-> cells[y].score])) @@ v,
                (i :> np_array([y \in 0..T-1 |-> cells[y].back])) @@ y_pred,
                steps + T)

\* idx = int(y_pred[N - t, idx]) for t in range(1, N).
RECURSIVE ViterbiBacktrace(_, _, _, _, _, _, _)
ViterbiBacktrace(tag_indexer, y_pred, N, t, idx, pred_tags, steps) ==
    IF t >= N THEN [pred_tags |-> pred_tags, steps |-> steps]
    ELSE LET nxt == y_pred[N - t][idx]
         IN ViterbiBacktrace(tag_indexer, y_pred, N, t + 1, nxt,
                Append(pred_tags, get_object(tag_indexer, nxt)), steps + 1)

viterbi(tokens, scorer) ==
    LET N == Len(tokens)
        T == Indexer_len(scorer.tag_indexer)
        rec == ViterbiRecursion(scorer, tokens, T, 1,
                   (0 :> np_array([y \in 0..T-1 |->
                             Plus(score_init(scorer, tokens, y),
                                  score_emission(scorer, tokens, y, 0))])),
                   (0 :> [y \in 0..T-1 |-> 0]), 0)
        idx == np_argmax(rec.v[N - 1], T)
        bt == ViterbiBacktrace(scorer.tag_indexer, rec.y_pred, N, 1, idx,
                  <<get_object(scorer.tag_indexer, idx)>>, 0)
    IN [status |-> "ok", pred_tags |-> reversed(bt.pred_tags),
        recursion_steps |-> rec.steps, backtrace_steps |-> bt.steps]

----------------------------------------------------------------------------
(* extract_emission_features and maybe_add_feature (utils)                 *)

\* A feature name: tag + ":" + kind + repr(offset) + "=" + value.  The n-gram,
\* IsCap and WordShape names carry no offset (arg 0).
Feat(tag, kind, arg, val) == [tag |-> tag, kind |-> kind, arg |-> arg, val |-> val]

Min(a, b) == IF a < b THEN a ELSE b
Max(a, b) == IF a > b THEN a ELSE b

active_word(tokens, k) ==
    IF k < 0 THEN <<"<s>">>
    ELSE IF k >= Len(tokens) THEN <<"</s>">> ELSE tokens[k + 1].word
active_pos(tokens, k) ==
    IF k < 0 THEN <<"<S>">>
    ELSE IF k >= Len(tokens) THEN <<"</S>">> ELSE <<tokens[k + 1].pos>>

word_shape(c) ==
    IF isupper(c) THEN "X" ELSE IF islower(c) THEN "x"
    ELSE IF isdigit(c) THEN "0" ELSE "?"

\* The names extract_emission_features offers to maybe_add_feature, in order.
FeatureNames(tokens, word_index, tag) ==
    LET curr_word == tokens[word_index + 1].word
        n == Len(curr_word)
        ctx(off) == << Feat(tag, "Word", off, active_word(tokens, word_index + off)),
                       Feat(tag, "Pos", off, active_pos(tokens, word_index + off)) >>
        ngram(size) == << Feat(tag, "StartNgram", 0, SubSeq(curr_word, 1, Min(size, n))),
                          Feat(tag, "EndNgram", 0,
                               SubSeq(curr_word, Max(0, n - size) + 1, n)) >>
    IN ctx(0 - 1) \o ctx(0) \o ctx(1) \o ngram(1) \o ngram(2) \o ngram(3)
       \o << Feat(tag, "IsCap", 0, << IF isupper(curr_word[1]) THEN "True" ELSE "False" >>),
             Feat(tag, "WordShape", 0, [k \in 1..n |-> word_shape(curr_word[k])]) >>

\* maybe_add_feature: with add_to_indexer the feature is registered and its
\* index appended; without, the index is appended only when the feature is
\* already known.  The result is the grown list and the (possibly grown) Indexer.
maybe_add_feature(feats, feature_indexer, add_to_indexer, feat) ==
    IF add_to_indexer
    THEN LET r == add_and_get_index(feature_indexer, feat)
         IN [feats |-> Append(feats, r.index), indexer |-> r.indexer]
    ELSE LET feat_idx == index_of(feature_indexer, feat)
         IN [feats |-> IF feat_idx # -1 THEN Append(feats, feat_idx) ELSE feats,
             indexer |-> feature_indexer]

\* The calls of maybe_add_feature in order; acc.k is the next name to offer.
RECURSIVE AddFeatures(_, _, _)
AddFeatures(acc, add_to_indexer, names) ==
    IF acc.k > Len(names) THEN [feats |-> acc.feats, indexer |-> acc.indexer]
    ELSE LET r == maybe_add_feature(acc.feats, acc.indexer, add_to_indexer, names[acc.k])
         IN AddFeatures([feats |-> r.feats, indexer |-> r.indexer, k |-> acc.k + 1],
                        add_to_indexer, names)

extract_emission_features(tokens, word_index, tag, feature_indexer, add_to_indexer) ==
    AddFeatures([feats |-> <<>>, indexer |-> feature_indexer, k |-> 1], add_to_indexer,
                FeatureNames(tokens, word_index, tag))

----------------------------------------------------------------------------
(* CrfNerModel.decode.  N is the number of tokens and T the number of tags; *)
(* v, max_pred and score_matrix are indexed [position][tag] here.            *)

\* sum([self.weights[i] for i in features]); IndexError when an index is not
\* one of the weight vector.
InRange(weights, features) ==
    \A k \in 1..Len(features) : features[k] \in DOMAIN weights
RECURSIVE SumWeights(_, _, _)
SumWeights(weights, features, k) ==
    IF k > Len(features) THEN 0
    ELSE weights[features[k]] + SumWeights(weights, features, k + 1)

\* The add_to_indexer argument of decode's call of extract_emission_features
\* (the mutant passes True, as the trainer does).
DecodeAddsToIndexer_mutant == TRUE
DecodeAddsToIndexer == FALSE

\* The double loop "for y in range(T): for i in range(N)" that fills
\* score_matrix; acc.k is the iteration y * N + i and the feature indexer is
\* threaded through the calls of extract_emission_features.
RECURSIVE CrfScoreMatrix(_, _, _, _)
CrfScoreMatrix(model, tokens, acc, add_to_indexer) ==
    LET N == Len(tokens)
        T == Indexer_len(model.tag_indexer)
    IN IF acc.k >= T * N \/ acc.index_error THEN acc
       ELSE LET y == acc.k \div N
                i == acc.k % N
                ex == extract_emission_features(tokens, i,
                          get_object(model.tag_indexer, y), acc.indexer, add_to_indexer)
                ok == InRange(model.weights, ex.feats)
            IN CrfScoreMatrix(model, tokens,
                   [score_matrix |->
                        IF ok THEN (<<i, y>> :> SumWeights(model.weights, ex.feats, 1))
                                   @@ acc.score_matrix
                        ELSE acc.score_matrix,
                    indexer |-> ex.indexer,
                    used |-> acc.used \cup Range(ex.feats),
                    index_error |-> ~ok, k |-> acc.k + 1],
                   add_to_indexer)

\* Mutant of IllegalTransition: the clause for a Beginning tag of another
\* label is missing.
IllegalTransition_mutant(prev_tag, curr_tag) ==
    \/ isO(prev_tag) /\ isI(curr_tag)
    \/ isI(prev_tag) /\ isI(curr_tag) /\ get_tag_label(prev_tag) # get_tag_label(curr_tag)

\* The BIO constraint of the recursion: prev_tag -> curr_tag is masked.
IllegalTransition(prev_tag, curr_tag) ==
    \/ isO(prev_tag) /\ isI(curr_tag)
    \/ isI(prev_tag) /\ isI(curr_tag) /\ get_tag_label(prev_tag) # get_tag_label(curr_tag)
    \/ isB(prev_tag) /\ isI(curr_tag) /\ get_tag_label(prev_tag) # get_tag_label(curr_tag)

\* Mutant of CrfInitialization: Inside-tags are not masked at position 0.
CrfInitialization_mutant(tag_indexer, score_matrix, T) ==
    np_array([y \in 0..T-1 |-> score_matrix[<<0, y>>]])

CrfInitialization(tag_indexer, score_matrix, T) ==
    np_array([y \in 0..T-1 |-> IF isI(get_object(tag_indexer, y)) THEN NegInf
                               ELSE score_matrix[<<0, y>>]])

CrfCell(tag_indexer, score_matrix, T, v_prev, y, i) ==
    LET prev_prob == np_array([y_prev \in 0..T-1 |->
            IF IllegalTransition(get_object(tag_indexer, y_prev),
                                 get_object(tag_indexer, y))
            THEN NegInf ELSE v_prev[y_prev]])
    IN [score |-> Plus(np_max(prev_prob, T), score_matrix[<<i, y>>]),
        back |-> np_argmax(prev_prob, T)]

RECURSIVE CrfRecursion(_, _, _, _, _, _, _, _)
CrfRecursion(tag_indexer, score_matrix, N, T, i, v, max_pred, steps) ==
    IF i >= N THEN [v |-> v, max_pred |-> max_pred, steps |-> steps]
    ELSE LET cells == np_array([y \in 0..T-1 |->
                          CrfCell(tag_indexer, score_matrix, T, v[i - 1], y, i)])
         IN CrfRecursion(tag_indexer, score_matrix, N, T, i + 1,
                (i :> np_array([y \in 0..T-1 |-> cells[y].score])) @@ v,
                (i :> np_array([y \in 0..T-1 |-> cells[y].back])) @@ max_pred,
                steps + T)

\* for i in range(1, N): append max_pred[index_of(pred_tags[-1]), N - i].
RECURSIVE CrfBacktrace(_, _, _, _, _, _)
CrfBacktrace(tag_indexer, max_pred, N, i, pred_tags, steps) ==
    IF i >= N THEN [pred_tags |-> pred_tags, steps |-> steps]
    ELSE CrfBacktrace(tag_indexer, max_pred, N, i + 1,
            Append(pred_tags,
                   get_object(tag_indexer,
                       max_pred[N - i]
                           [index_of(tag_indexer, pred_tags[Len(pred_tags)])])),
            steps + 1)

\* The decoder's result, with the feature indexer it leaves behind, the feature
\* ids it used to index the weights and its score_matrix.
CrfNerModel_decode(model, tokens) ==
    LET N == Len(tokens)
        T == Indexer_len(model.tag_indexer)
        sm == CrfScoreMatrix(model, tokens,
                  [score_matrix |-> <<>>, indexer |-> model.feature_indexer,
                   used |-> {}, index_error |-> FALSE, k |-> 0],
                  DecodeAddsToIndexer)
        rec == CrfRecursion(model.tag_indexer, sm.score_matrix, N, T, 1,
                   (0 :> CrfInitialization(model.tag_indexer, sm.score_matrix, T)),
                   (0 :> [y \in 0..T-1 |-> 0]), 0)
        bt == CrfBacktrace(model.tag_indexer, rec.max_pred, N, 1,
                  <<get_object(model.tag_indexer, np_argmax(rec.v[N - 1], T))>>, 0)
    IN IF sm.index_error
       THEN [status |-> "IndexError", pred_tags |-> <<>>, recursion_steps |-> 0,
             backtrace_steps |-> 0, feature_indexer |-> sm.indexer, used |-> sm.used,
             score_matrix |-> sm.score_matrix]
       ELSE [status |-> "ok", pred_tags |-> reversed(bt.pred_tags),
             recursion_steps |-> rec.steps, backtrace_steps |-> bt.steps,
             feature_indexer |-> sm.indexer, used |-> sm.used,
             score_matrix |-> sm.score_matrix]

----------------------------------------------------------------------------
(* Feature caching of train_crf_model: for every sentence, word and tag the *)
(* features are extracted with add_to_indexer=True.                         *)

\* The loops over word_idx and tag_idx of one sentence; acc.k is the iteration
\* word_idx * T + tag_idx, acc.cache[<<word_idx, tag_idx>>] the cached list.
RECURSIVE CacheSentence(_, _, _)
CacheSentence(tokens, tag_indexer, acc) ==
    LET T == Indexer_len(tag_indexer)
    IN IF acc.k >= Len(tokens) * T THEN [cache |-> acc.cache, indexer |-> acc.indexer]
       ELSE LET word_idx == acc.k \div T
                tag_idx == acc.k % T
                ex == extract_emission_features(tokens, word_idx,
                          get_object(tag_indexer, tag_idx), acc.indexer, TRUE)
            IN CacheSentence(tokens, tag_indexer,
                   [cache |-> (<<word_idx, tag_idx>> :> ex.feats) @@ acc.cache,
                    indexer |-> ex.indexer, k |-> acc.k + 1])

\* The loop over sentence_idx: feature_cache[sentence_idx] for every sentence
\* (sentences are numbered from 0) and the feature indexer they leave.
RECURSIVE FeatureCaching(_, _, _)
FeatureCaching(token_lists, tag_indexer, acc) ==
    IF acc.sentence_idx >= Len(token_lists)
    THEN [cache |-> acc.cache, indexer |-> acc.indexer]
    ELSE LET one == CacheSentence(token_lists[acc.sentence_idx + 1], tag_indexer,
                        [cache |-> <<>>, indexer |-> acc.indexer, k |-> 0])
         IN FeatureCaching(token_lists, tag_indexer,
                [cache |-> (acc.sentence_idx :> one.cache) @@ acc.cache,
                 indexer |-> one.indexer, sentence_idx |-> acc.sentence_idx + 1])

\* feature_cache and feature_indexer as train_crf_model builds them.
BuildFeatureCache(token_lists, tag_indexer) ==
    FeatureCaching(token_lists, tag_indexer,
                   [cache |-> <<>>, indexer |-> <<>>, sentence_idx |-> 0])

----------------------------------------------------------------------------
(* Decoding: the models and sentences the decoders are run on              *)

MaxLen == 3       \* longest sentence decoded
MaxSeed == 8      \* score tables and weight vectors are numbered 0..MaxSeed

\* Tag vocabularies, in index order.
TagVocabs ==
    { <<O_TAG, B_PER, I_PER>>, <<I_PER, B_PER, O_TAG>>, <<B_PER, I_LOC, I_PER>>,
      <<O_TAG, I_PER, B_LOC, I_LOC>>, <<I_PER, I_LOC>>, <<I_PER>> }

DecTokens == {Token(W_Phil, "NNP"), Token(W_India, "NNP")}
DecWordIndexer == <<UNK, W_Phil>>
DecTrainTokens == << <<Token(W_Phil, "NNP"), Token(W_is, "VBZ")>> >>

\* Cell k of score table number seed: one of 0, 1, 2.  Table 0 is all zero
\* (every path ties); the others mix equal and different cells.
TableCell(seed, k) == ((seed * (k * k + 3 * k + 1)) % 13) % 3

\* An HmmNerModel over a tag vocabulary: log-probabilities in {-2, -1, 0}.
HmmOf(tag_indexer, seed) ==
    LET N == Len(tag_indexer)
        W == Len(DecWordIndexer)
    IN [class |-> "HmmNerModel",
        tag_indexer |-> tag_indexer, word_indexer |-> DecWordIndexer,
        init_log_probs |-> [s \in 0..N-1 |-> 0 - TableCell(seed, s)],
        transition_log_probs |->
            [p \in 0..N-1 |-> [s \in 0..N-1 |-> 0 - TableCell(seed, N + p * N + s)]],
        emission_log_probs |->
            [s \in 0..N-1 |-> [w \in 0..W-1 |-> 0 - TableCell(seed, N + N * N + s * W + w)]]]

\* A CrfNerModel over a tag vocabulary: the feature indexer is the one feature
\* caching leaves on DecTrainTokens, the weights are in {-1, 0, 1}.
DecFeatureIndexer ==
    np_array([tag_indexer \in TagVocabs |->
                 BuildFeatureCache(DecTrainTokens, tag_indexer).indexer])
CrfOf(tag_indexer, seed) ==
    LET fi == DecFeatureIndexer[tag_indexer]
    IN [class |-> "CrfNerModel",
        tag_indexer |-> tag_indexer, feature_indexer |-> fi,
        weights |-> [f \in 0..Len(fi)-1 |-> TableCell(seed, f) - 1]]

NoResult == [op |-> "none"]
NoModel == [class |-> "none"]
NotTraining == [pc |-> "idle"]
Decoders == {"HmmNerModel.decode", "viterbi", "CrfNerModel.decode"}
Returned(ret) == [status |-> ret.status, pred_tags |-> ret.pred_tags]
Remember(op, ret) == IF memo[op] = <<>> THEN [memo EXCEPT ![op] = <<Returned(ret)>>] ELSE memo

DecInit ==
    /\ sentence_tokens \in SeqsOf(DecTokens, 1, MaxLen)
    /\ \E tag_indexer \in TagVocabs, seed \in 0..MaxSeed :
          ner_model \in {HmmOf(tag_indexer, seed), CrfOf(tag_indexer, seed)}
    /\ result = NoResult
    /\ memo = [op \in Decoders |-> <<>>]
    /\ sentences = <<>>
    /\ hmm_train = NotTraining
    /\ crf_train = NotTraining

\* model.decode(sentence_tokens) on an HmmNerModel.
HmmDecode ==
    /\ ner_model.class = "HmmNerModel"
    /\ LET r == HmmNerModel_decode(ner_model, sentence_tokens)
       IN /\ result' = [op |-> "HmmNerModel.decode", ret |-> r]
          /\ memo' = Remember("HmmNerModel.decode", r)
    /\ UNCHANGED <<sentence_tokens, ner_model, train_vars>>

\* viterbi(sentence_tokens, scorer) with the scorer of an HmmNerModel.
Viterbi ==
    /\ ner_model.class = "HmmNerModel"
    /\ LET r == viterbi(sentence_tokens, ProbabilisticSequenceScorer(ner_model))
       IN /\ result' = [op |-> "viterbi", ret |-> r]
          /\ memo' = Remember("viterbi", r)
    /\ UNCHANGED <<sentence_tokens, ner_model, train_vars>>

\* model.decode(sentence_tokens) on a CrfNerModel; the model's feature indexer
\* is the object the extractor was handed.
CrfDecode ==
    /\ ner_model.class = "CrfNerModel"
    /\ LET r == CrfNerModel_decode(ner_model, sentence_tokens)
       IN /\ result' = [op |-> "CrfNerModel.decode", ret |-> r]
          /\ memo' = Remember("CrfNerModel.decode", r)
          /\ ner_model' = [ner_model EXCEPT !.feature_indexer = r.feature_indexer]
    /\ UNCHANGED <<sentence_tokens, train_vars>>

Init == DecInit

Next == HmmDecode \/ Viterbi \/ CrfDecode

Spec == Init /\ [][Next]_vars

----------------------------------------------------------------------------
(* Properties of the decoders                                              *)

\* All assignments of a tag index to each of N positions.
AllPaths(N, T) == [0..N-1 -> 0..T-1]

\* The tag indices of a returned tag sequence.
PathOf(tag_indexer, pred_tags) ==
    [t \in 0..Len(pred_tags)-1 |-> index_of(tag_indexer, pred_tags[t + 1])]

\* init(y_0) + emission(y_0, 0) + sum over t >= 1 of
\* transition(y_{t-1}, y_t) + emission(y_t, t).
HmmPathScore(m, tokens, ys) ==
    SumOver([t \in 0..Len(tokens)-1 |->
                IF t = 0 THEN m.init_log_probs[ys[0]] + score_emission(m, tokens, ys[0], 0)
                ELSE m.transition_log_probs[ys[t - 1]][ys[t]]
                     + score_emission(m, tokens, ys[t], t)],
            0, Len(tokens) - 1)

\* The transitions the specification forbids: the current tag is an Inside-tag
\* and the previous one is Outside or carries another label.
Forbidden(prev_tag, curr_tag) ==
    /\ curr_tag.bio = "I"
    /\ \/ prev_tag.bio = "O"
       \/ prev_tag.bio \in {"I", "B"} /\ prev_tag.label # curr_tag.label

LegalTags(tags) ==
    /\ tags[1].bio # "I"
    /\ \A k \in 2..Len(tags) : ~Forbidden(tags[k - 1], tags[k])

\* Sum over t of M[y_t, t]; -infinity for an Inside-tag at position 0 or an
\* illegal adjacent pair.
CrfPathScore(tag_indexer, M, N, ys) ==
    IF LegalTags([k \in 1..N |-> get_object(tag_indexer, ys[k - 1])])
    THEN SumOver([t \in 0..N-1 |-> M[<<t, ys[t]>>]], 0, N - 1)
    ELSE NegInf

HmmCalled == result.op \in {"HmmNerModel.decode", "viterbi"}
CrfCalled == result.op = "CrfNerModel.decode"
HasOutsideOrBeginning(tag_indexer) == \E k \in 1..Len(tag_indexer) : tag_indexer[k].bio # "I"

\* C1: the tag sequence each decoder returns has one tag per token and a
\* total score at least that of every one of the T^N tag sequences.
C1_ViterbiOptimal ==
    LET N == Len(sentence_tokens)
        T == Len(ner_model.tag_indexer)
    IN /\ HmmCalled =>
            LET ys == PathOf(ner_model.tag_indexer, result.ret.pred_tags)
            IN /\ Len(result.ret.pred_tags) = N
               /\ \A zs \in AllPaths(N, T) :
                     HmmPathScore(ner_model, sentence_tokens, ys)
                         >= HmmPathScore(ner_model, sentence_tokens, zs)
       /\ CrfCalled =>
            LET ys == PathOf(ner_model.tag_indexer, result.ret.pred_tags)
                M == result.ret.score_matrix
            IN /\ result.ret.status = "ok"
               /\ Len(result.ret.pred_tags) = N
               /\ \A zs \in AllPaths(N, T) :
                     CrfPathScore(ner_model.tag_indexer, M, N, ys)
                         >= CrfPathScore(ner_model.tag_indexer, M, N, zs)

\* C1 witness: a decoder returned, on three tokens and three tags or more, a
\* sequence that strictly beats some other sequence of finite score.
C1_Witness ==
    LET N == Len(sentence_tokens)
        T == Len(ner_model.tag_indexer)
    IN /\ N >= 3 /\ T >= 3
       /\ \/ /\ HmmCalled
             /\ \E zs \in AllPaths(N, T) :
                   HmmPathScore(ner_model, sentence_tokens,
                                PathOf(ner_model.tag_indexer, result.ret.pred_tags))
                       > HmmPathScore(ner_model, sentence_tokens, zs)
          \/ /\ CrfCalled
             /\ \E zs \in AllPaths(N, T) :
                   /\ CrfPathScore(ner_model.tag_indexer, result.ret.score_matrix, N, zs)
                          # NegInf
                   /\ CrfPathScore(ner_model.tag_indexer, result.ret.score_matrix, N,
                                   PathOf(ner_model.tag_indexer, result.ret.pred_tags))
                          > CrfPathScore(ner_model.tag_indexer, result.ret.score_matrix, N, zs)

\* C2 as claimed: for any tag vocabulary, the tags CrfNerModel.decode returns
\* never start with an Inside-tag and never contain a forbidden adjacent pair.
C2_AnyVocabularyLegal ==
    CrfCalled => LegalTags(result.ret.pred_tags)

\* C2: for a tag vocabulary with at least one tag that is not an Inside-tag,
\* the tags CrfNerModel.decode returns never start with an Inside-tag and
\* never contain a forbidden adjacent pair.
C2_DecodedTagsLegal ==
    (CrfCalled /\ HasOutsideOrBeginning(ner_model.tag_indexer))
        => LegalTags(result.ret.pred_tags)

\* C2 witness: the CRF decoder returned a sequence that holds an Inside-tag,
\* after a Beginning tag of its label.
C2_Witness ==
    /\ CrfCalled /\ HasOutsideOrBeginning(ner_model.tag_indexer)
    /\ \E k \in 2..Len(result.ret.pred_tags) :
          /\ result.ret.pred_tags[k].bio = "I"
          /\ result.ret.pred_tags[k - 1].bio = "B"

\* The score of tag y at position 0: init + emission for the HMM; the feature
\* score, -infinity for an Inside-tag, for the CRF.
HmmScoreAt0(m, tokens, y) == m.init_log_probs[y] + score_emission(m, tokens, y, 0)
CrfScoreAt0(tag_indexer, M, y) ==
    IF get_object(tag_indexer, y).bio = "I" THEN NegInf ELSE M[<<0, y>>]

SingleTokenCalled ==
    /\ Len(sentence_tokens) = 1
    /\ result.op \in {"HmmNerModel.decode", "CrfNerModel.decode"}

\* One tag, no recursion or backtrace step, and the tag scores best at position 0.
SingleTokenShape ==
    LET T == Len(ner_model.tag_indexer)
        y == index_of(ner_model.tag_indexer, result.ret.pred_tags[1])
    IN /\ result.ret.status = "ok"
       /\ result.ret.recursion_steps = 0
       /\ result.ret.backtrace_steps = 0
       /\ Len(result.ret.pred_tags) = 1
       /\ y \in 0..T-1
       /\ IF CrfCalled
          THEN \A z \in 0..T-1 :
                  CrfScoreAt0(ner_model.tag_indexer, result.ret.score_matrix, y)
                      >= CrfScoreAt0(ner_model.tag_indexer, result.ret.score_matrix, z)
          ELSE \A z \in 0..T-1 :
                  HmmScoreAt0(ner_model, sentence_tokens, y)
                      >= HmmScoreAt0(ner_model, sentence_tokens, z)

\* C5 as claimed: decoding one token takes no recursion and no backtrace
\* step and returns the one best-scoring tag, which is never an Inside-tag.
C5_SingleTokenNeverInside ==
    SingleTokenCalled => (SingleTokenShape /\ result.ret.pred_tags[1].bio # "I")

\* C5: decoding one token takes no recursion and no backtrace step and
\* returns the one best-scoring tag at position 0; the tag the CRF decoder
\* returns is not an Inside-tag when the vocabulary holds another kind of tag.
C5_SingleToken ==
    SingleTokenCalled =>
        /\ SingleTokenShape
        /\ (CrfCalled /\ HasOutsideOrBeginning(ner_model.tag_indexer))
               => result.ret.pred_tags[1].bio # "I"

\* C5 witness: the CRF decoder was run on one token for which an Inside-tag
\* has the strictly highest feature score, and returned another tag.
C5_Witness ==
    /\ SingleTokenCalled /\ CrfCalled
    /\ \E z \in 0..Len(ner_model.tag_indexer)-1 :
          /\ get_object(ner_model.tag_indexer, z).bio = "I"
          /\ \A y \in 0..Len(ner_model.tag_indexer)-1 :
                y # z => result.ret.score_matrix[<<0, z>>] > result.ret.score_matrix[<<0, y>>]
    /\ result.ret.pred_tags[1].bio # "I"

\* C6: a decoder call leaves the tokens and the model (tag vocabulary, word
\* or feature vocabulary, tables or weights) as they were, and returns what
\* the first call of that decoder returned.
C6_DecodeDeterministic ==
    [][ /\ ner_model' = ner_model
        /\ sentence_tokens' = sentence_tokens
        /\ memo'[result'.op] = <<Returned(result'.ret)>>
        /\ \A op \in Decoders : memo[op] # <<>> => memo'[op] = memo[op] ]_vars

\* C6 witness: both HMM decoders have been called, or the CRF decoder has
\* been called on a sentence holding a word whose features it never saw.
C6_Witness ==
    \/ memo["HmmNerModel.decode"] # <<>> /\ memo["viterbi"] # <<>>
    \/ /\ memo["CrfNerModel.decode"] # <<>>
       /\ \E k \in 1..Len(sentence_tokens) : sentence_tokens[k].word = W_India

\* ys comes before zs when the two are compared by tag index from the last
\* position backwards.
ComesBefore(ys, zs, N) ==
    \E k \in 0..N-1 : /\ ys[k] < zs[k]
                      /\ \A j \in (k + 1)..(N - 1) : ys[j] = zs[j]

\* C11: of the tag sequences that share the score of the returned one (the
\* maximum), each decoder returns the one that comes first when compared by
\* tag index from the last position backwards, as the lowest-index argmax of
\* the final tag and of every backpointer selects it; and HmmNerModel.decode
\* and viterbi, called with the same model and tokens, return the same tags.
C11_TieBreaking ==
    LET N == Len(sentence_tokens)
        T == Len(ner_model.tag_indexer)
    IN /\ HmmCalled =>
            LET ys == PathOf(ner_model.tag_indexer, result.ret.pred_tags)
                best == HmmPathScore(ner_model, sentence_tokens, ys)
            IN \A zs \in AllPaths(N, T) :
                  HmmPathScore(ner_model, sentence_tokens, zs) = best
                      => (zs = ys \/ ComesBefore(ys, zs, N))
       /\ CrfCalled =>
            LET ys == PathOf(ner_model.tag_indexer, result.ret.pred_tags)
                M == result.ret.score_matrix
                best == CrfPathScore(ner_model.tag_indexer, M, N, ys)
            IN \A zs \in AllPaths(N, T) :
                  CrfPathScore(ner_model.tag_indexer, M, N, zs) = best
                      => (zs = ys \/ ComesBefore(ys, zs, N))
       /\ (memo["HmmNerModel.decode"] # <<>> /\ memo["viterbi"] # <<>>) =>
            memo["HmmNerModel.decode"][1].pred_tags = memo["viterbi"][1].pred_tags

\* C11 witness: both HmmNerModel.decode and viterbi have been called on three
\* tokens; another tag sequence shares the maximum score, and the returned
\* one does not hold tag 0 at every position.
C11_Witness ==
    LET N == Len(sentence_tokens)
        T == Len(ner_model.tag_indexer)
    IN /\ HmmCalled /\ N = 3
       /\ memo["HmmNerModel.decode"] # <<>> /\ memo["viterbi"] # <<>>
       /\ LET ys == PathOf(ner_model.tag_indexer, result.ret.pred_tags)
          IN /\ \E t \in 0..N-1 : ys[t] # 0
             /\ \E zs \in AllPaths(N, T) :
                   /\ zs # ys
                   /\ HmmPathScore(ner_model, sentence_tokens, zs)
                         = HmmPathScore(ner_model, sentence_tokens, ys)

----------------------------------------------------------------------------
(* train_hmm_model                                                         *)
(*                                                                         *)
(* Counts are kept in units of the smoothing constant: 0.001 is 1 and 1.0  *)
(* is 1000.  A probability is the pair of its numerator and denominator.   *)
(* np.log is the base-2 logarithm in fixed point with LogBits fractional   *)
(* bits (a positive multiple of the natural logarithm, truncated).         *)

Smoothing == 1       \* 0.001
CountUnit == 1000    \* 1.0
LogBits == 8

LabeledSentence(tokens, bio_tags) == [tokens |-> tokens, bio_tags |-> bio_tags]
get_bio_tags(sentence) == sentence.bio_tags

RECURSIVE FloorLog2(_)
FloorLog2(n) == IF n < 2 THEN 0 ELSE 1 + FloorLog2(n \div 2)
\* The fractional bits of log2 of the mantissa x / 2^14, 1 <= x / 2^14 < 2.
RECURSIVE LogFraction(_, _)
LogFraction(x, bits) ==
    IF bits = 0 THEN 0
    ELSE LET sq == (x * x) \div 16384
         IN IF sq >= 32768 THEN Pow(2, bits - 1) + LogFraction(sq \div 2, bits - 1)
            ELSE LogFraction(sq, bits - 1)
np_log_int(n) ==
    LET e == FloorLog2(n)
    IN e * Pow(2, LogBits) + LogFraction((n * 16384) \div Pow(2, e), LogBits)
\* np.log(count / total)
np_log(p) == np_log_int(p.num) - np_log_int(p.den)

\* get_word_index: the index of "UNK" for a word counted fewer than 1.5 times.
get_word_index(word_indexer, word_counter, word) ==
    IF 2 * word_counter[word] < 3 THEN add_and_get_index(word_indexer, UNK)
    ELSE add_and_get_index(word_indexer, word)

\* Lines 140-142 for one sentence and for the corpus.
RECURSIVE CountTokens(_, _)
CountTokens(word_counter, tokens) ==
    IF tokens = <<>> THEN word_counter
    ELSE CountTokens([word_counter EXCEPT ![Head(tokens).word] = @ + 1], Tail(tokens))
RECURSIVE CountCorpus(_, _)
CountCorpus(word_counter, corpus) ==
    IF corpus = <<>> THEN word_counter
    ELSE CountCorpus(CountTokens(word_counter, Head(corpus).tokens), Tail(corpus))

\* Lines 144-146 for one sentence.
RECURSIVE IndexTokens(_, _, _)
IndexTokens(word_indexer, word_counter, tokens) ==
    IF tokens = <<>> THEN word_indexer
    ELSE IndexTokens(get_word_index(word_indexer, word_counter, Head(tokens).word).indexer,
                     word_counter, Tail(tokens))
\* Lines 143-148: acc holds word_indexer and tag_indexer.
RECURSIVE IndexCorpus(_, _, _)
IndexCorpus(acc, word_counter, corpus) ==
    IF corpus = <<>> THEN acc
    ELSE IndexCorpus(
           [word_indexer |-> IndexTokens(acc.word_indexer, word_counter, Head(corpus).tokens),
            tag_indexer |-> IndexAll(acc.tag_indexer, get_bio_tags(Head(corpus)))],
           word_counter, Tail(corpus))

\* np.ones(shape) * 0.001
np_ones_vector(n) == [k \in 0..n-1 |-> Smoothing]
np_ones_matrix(n, m) == [r \in 0..n-1 |-> [c \in 0..m-1 |-> Smoothing]]

\* Lines 155-162 for the positions i.. of one sentence (i counts from 0).
RECURSIVE CountSentenceFrom(_, _, _, _)
CountSentenceFrom(locals, word_counter, sentence, i) ==
    IF i >= Len(sentence.tokens) THEN locals
    ELSE LET bio_tags == get_bio_tags(sentence)
             tag == add_and_get_index(locals.tag_indexer, bio_tags[i + 1])
             word == get_word_index(locals.word_indexer, word_counter, sentence.tokens[i + 1].word)
             tag_idx == tag.index
             word_idx == word.index
             prev == add_and_get_index(tag.indexer, bio_tags[i])
             emitted == [locals EXCEPT !.tag_indexer = tag.indexer,
                                  !.word_indexer = word.indexer,
                                  !.emission_counts[tag_idx][word_idx] = @ + CountUnit]
             counted ==
                 IF i = 0 THEN [emitted EXCEPT !.init_counts[tag_idx] = @ + CountUnit]
                 ELSE [emitted EXCEPT !.tag_indexer = prev.indexer,
                                      !.transition_counts[prev.index][tag_idx] = @ + CountUnit]
         IN CountSentenceFrom(np_array(counted), word_counter, sentence, i + 1)

\* array.sum() and array.sum(axis=1) of a vector and of an n x m matrix.
RECURSIVE np_sum(_, _)
np_sum(a, n) == IF n = 0 THEN 0 ELSE a[n - 1] + np_sum(a, n - 1)
np_sum_all(a, n, m) == np_sum([r \in 0..n-1 |-> np_sum(a[r], m)], n)
\* Mutant of np_sum_axis1: every row is given the sum of the whole table.
np_sum_axis1_mutant(a, n, m) == [r \in 0..n-1 |-> np_sum_all(a, n, m)]
np_sum_axis1(a, n, m) == [r \in 0..n-1 |-> np_sum(a[r], m)]

Divide(count, total) == [num |-> count, den |-> total]
\* init_counts / init_counts.sum()
NormalizeVector(a, n) ==
    LET total == np_sum(a, n) IN [k \in 0..n-1 |-> Divide(a[k], total)]
\* counts / counts.sum(axis=1)[:, np.newaxis]
NormalizeRows(a, n, m) ==
    LET totals == np_sum_axis1(a, n, m)
    IN [r \in 0..n-1 |-> [c \in 0..m-1 |-> Divide(a[r][c], totals[r])]]
LogVector(p, n) == [k \in 0..n-1 |-> np_log(p[k])]
LogMatrix(p, n, m) == [r \in 0..n-1 |-> [c \in 0..m-1 |-> np_log(p[r][c])]]

\* emission_counts[:, word_indexer.add_and_get_index(word)] of lines 176-177:
\* the word is added to the Indexer when it is not there, and a column past
\* the last one raises IndexError.
EmissionColumn(locals, word) ==
    LET got == add_and_get_index(locals.word_indexer, word)
    IN [word_indexer |-> got.indexer,
        raised |-> got.index >= locals.emission_columns]

HmmNerModel(tag_indexer, word_indexer, init_log_probs, transition_log_probs, emission_log_probs) ==
    [class |-> "HmmNerModel", tag_indexer |-> tag_indexer, word_indexer |-> word_indexer,
     init_log_probs |-> init_log_probs, transition_log_probs |-> transition_log_probs,
     emission_log_probs |-> emission_log_probs]

----------------------------------------------------------------------------
(* train_hmm_model as a state machine: the corpora it is run on, its       *)
(* positions, and decoding with the model it returns                       *)

MaxSentences == 3    \* longest corpus

S_Phil == LabeledSentence(
    <<Token(W_Phil, "NNP"), Token(W_is, "VBZ"), Token(W_here, "RB")>>,
    <<B_PER, O_TAG, O_TAG>>)
S_India == LabeledSentence(
    <<Token(W_India, "NNP"), Token(W_is, "VBZ"), Token(W_here, "RB")>>,
    <<B_LOC, O_TAG, O_TAG>>)
S_PhilIndia == LabeledSentence(
    <<Token(W_Phil, "NNP"), Token(W_India, "NNP")>>, <<B_PER, I_PER>>)
S_7 == LabeledSentence(<<Token(W_7, "CD")>>, <<O_TAG>>)
SentencePool == {S_Phil, S_India, S_PhilIndia, S_7}
AllWords == {UNK, W_Phil, W_is, W_here, W_India, W_7}

HmmLocals(pc) ==
    [pc |-> pc, word_counter |-> <<>>, word_indexer |-> <<>>, tag_indexer |-> <<>>,
     init_counts |-> <<>>, transition_counts |-> <<>>, emission_counts |-> <<>>,
     emission_columns |-> 0, sentence_idx |-> 0, probs |-> <<>>, trained |-> NoModel]

HmmTrainInit ==
    /\ sentences \in SeqsOf(SentencePool, 1, MaxSentences)
    /\ hmm_train = HmmLocals("count_words")
    /\ crf_train = NotTraining
    /\ sentence_tokens = <<>>
    /\ ner_model = NoModel
    /\ result = NoResult
    /\ memo = [op \in Decoders |-> <<>>]

\* Lines 136-142.
CountWords ==
    /\ hmm_train.pc = "count_words"
    /\ hmm_train' = [hmm_train EXCEPT
          !.pc = "index_words",
          !.word_indexer = add_and_get_index(<<>>, UNK).indexer,
          !.word_counter = CountCorpus([w \in AllWords |-> 0], sentences)]
    /\ UNCHANGED <<sentences, crf_train, dec_vars>>

\* Lines 143-148.
IndexWords ==
    /\ hmm_train.pc = "index_words"
    /\ LET acc == IndexCorpus([word_indexer |-> hmm_train.word_indexer,
                               tag_indexer |-> hmm_train.tag_indexer],
                              hmm_train.word_counter, sentences)
       IN hmm_train' = [hmm_train EXCEPT !.pc = "allocate",
                                         !.word_indexer = acc.word_indexer,
                                         !.tag_indexer = acc.tag_indexer]
    /\ UNCHANGED <<sentences, crf_train, dec_vars>>

\* Lines 150-152.
AllocateTables ==
    /\ hmm_train.pc = "allocate"
    /\ LET T == Indexer_len(hmm_train.tag_indexer)
           W == Indexer_len(hmm_train.word_indexer)
       IN hmm_train' = [hmm_train EXCEPT
             !.pc = "count",
             !.init_counts = np_ones_vector(T),
             !.transition_counts = np_ones_matrix(T, T),
             !.emission_counts = np_ones_matrix(T, W),
             !.emission_columns = W,
             !.sentence_idx = 0]
    /\ UNCHANGED <<sentences, crf_train, dec_vars>>

\* Lines 153-162 for the next sentence.
CountSentence ==
    /\ hmm_train.pc = "count"
    /\ hmm_train.sentence_idx < Len(sentences)
    /\ hmm_train' =
          [CountSentenceFrom(hmm_train, hmm_train.word_counter,
                             sentences[hmm_train.sentence_idx + 1], 0)
           EXCEPT !.sentence_idx = @ + 1]
    /\ UNCHANGED <<sentences, crf_train, dec_vars>>

\* Lines 165-171: probs holds the quotients np.log is applied to.
Normalize ==
    /\ hmm_train.pc = "count"
    /\ hmm_train.sentence_idx = Len(sentences)
    /\ LET T == Indexer_len(hmm_train.tag_indexer)
           W == hmm_train.emission_columns
           probs == [init |-> NormalizeVector(hmm_train.init_counts, T),
                     transition |-> NormalizeRows(hmm_train.transition_counts, T, T),
                     emission |-> NormalizeRows(hmm_train.emission_counts, T, W)]
       IN hmm_train' = [hmm_train EXCEPT
             !.pc = "print_india",
             !.probs = probs,
             !.init_counts = LogVector(probs.init, T),
             !.transition_counts = LogMatrix(probs.transition, T, T),
             !.emission_counts = LogMatrix(probs.emission, T, W)]
    /\ UNCHANGED <<sentences, crf_train, dec_vars>>

\* Line 176.
PrintIndia ==
    /\ hmm_train.pc = "print_india"
    /\ LET column == EmissionColumn(hmm_train, W_India)
       IN hmm_train' = [hmm_train EXCEPT
             !.pc = IF column.raised THEN "IndexError" ELSE "print_phil",
             !.word_indexer = column.word_indexer]
    /\ UNCHANGED <<sentences, crf_train, dec_vars>>

\* Line 177.
PrintPhil ==
    /\ hmm_train.pc = "print_phil"
    /\ LET column == EmissionColumn(hmm_train, W_Phil)
       IN hmm_train' = [hmm_train EXCEPT
             !.pc = IF column.raised THEN "IndexError" ELSE "return",
             !.word_indexer = column.word_indexer]
    /\ UNCHANGED <<sentences, crf_train, dec_vars>>

\* Line 179.
Return ==
    /\ hmm_train.pc = "return"
    /\ hmm_train' = [hmm_train EXCEPT
          !.pc = "returned",
          !.trained = HmmNerModel(hmm_train.tag_indexer, hmm_train.word_indexer,
                                  hmm_train.init_counts, hmm_train.transition_counts,
                                  hmm_train.emission_counts)]
    /\ UNCHANGED <<sentences, crf_train, dec_vars>>

\* decode with the returned model, on a training sentence or on an unseen word.
TrainedDecode ==
    /\ hmm_train.pc = "returned"
    /\ \E tokens \in {sentences[k].tokens : k \in 1..Len(sentences)}
                        \cup {<<Token(W_7, "CD")>>} :
          /\ sentence_tokens' = tokens
          /\ ner_model' = hmm_train.trained
          /\ result' = [op |-> "HmmNerModel.decode",
                        ret |-> HmmNerModel_decode(hmm_train.trained, tokens)]
    /\ UNCHANGED <<memo, train_vars>>

HmmTrainNext ==
    \/ CountWords \/ IndexWords \/ AllocateTables \/ CountSentence \/ Normalize
    \/ PrintIndia \/ PrintPhil \/ Return \/ TrainedDecode

SpecHmm == HmmTrainInit /\ [][HmmTrainNext]_vars

----------------------------------------------------------------------------
(* Properties of train_hmm_model                                           *)

\* The positions <<s, i>> of the first k sentences of the corpus, the word and
\* the tag at a position, and the number of times a word occurs in the corpus.
Positions(k) ==
    UNION {{<<s, i>> : i \in 1..Len(sentences[s].tokens)} : s \in 1..k}
WordAt(p) == sentences[p[1]].tokens[p[2]].word
TagAt(p) == sentences[p[1]].bio_tags[p[2]]
Occurrences(word) ==
    Cardinality({p \in Positions(Len(sentences)) : WordAt(p) = word})

HmmScenario == Len(sentences) >= 2 /\ \A k \in 1..Len(sentences) : sentences[k] = S_Phil
HmmFinished == hmm_train.pc \in {"returned", "IndexError"}
HmmIndexed == hmm_train.pc \notin {"count_words", "index_words"}
HmmNormalized ==
    hmm_train.pc \in {"print_india", "print_phil", "return", "returned", "IndexError"}

\* The tag whose emission score for a word of the word vocabulary is highest.
BestEmissionTag(model, word) ==
    LET T == Indexer_len(model.tag_indexer)
        column == index_of(model.word_indexer, word)
    IN get_object(model.tag_indexer,
                  np_argmax([s \in 0..T-1 |-> model.emission_log_probs[s][column]], T))

\* C3: train_hmm_model run on the sentence Phil/is/here tagged B-PER/O/O,
\* repeated two or more times, returns a model whose best emission tag for
\* "Phil" is B-PER and whose decode of that sentence is B-PER, O, O.
C3_ScenarioTrains ==
    (HmmScenario /\ HmmFinished) =>
        /\ hmm_train.pc = "returned"
        /\ BestEmissionTag(hmm_train.trained, W_Phil) = B_PER
        /\ HmmNerModel_decode(hmm_train.trained, S_Phil.tokens).pred_tags
              = <<B_PER, O_TAG, O_TAG>>

\* The emission column a word of the corpus is counted in under the backoff rule.
BackoffColumn(word) ==
    IF Occurrences(word) >= 2 THEN index_of(hmm_train.word_indexer, word)
    ELSE index_of(hmm_train.word_indexer, UNK)

\* C4: once the words are indexed, a word other than "UNK" is in the word
\* vocabulary, with an emission column of its own, exactly when it occurs at
\* least twice in the corpus; and the scorer of a returned model scores every
\* word outside the word vocabulary with the "UNK" column.
C4_RareWordBackoff ==
    /\ HmmIndexed =>
          \A word \in AllWords \ {UNK} :
              /\ contains(hmm_train.word_indexer, word) <=> Occurrences(word) >= 2
              /\ (hmm_train.pc # "allocate" /\ contains(hmm_train.word_indexer, word))
                    => index_of(hmm_train.word_indexer, word) < hmm_train.emission_columns
    /\ hmm_train.pc = "returned" =>
          LET model == hmm_train.trained
              scorer == ProbabilisticSequenceScorer(model)
          IN \A word \in AllWords, s \in 0..Indexer_len(model.tag_indexer)-1 :
                ~contains(model.word_indexer, word) =>
                    score_emission(scorer, <<Token(word, "NN")>>, s, 0)
                        = model.emission_log_probs[s][index_of(model.word_indexer, UNK)]

\* The raw count of a cell after the first k sentences, by the counting rule.
TagIdx(tag) == index_of(hmm_train.tag_indexer, tag)
EmissionIncrements(k, s, w) ==
    Cardinality({p \in Positions(k) : TagIdx(TagAt(p)) = s /\ BackoffColumn(WordAt(p)) = w})
InitIncrements(k, s) ==
    Cardinality({p \in Positions(k) : p[2] = 1 /\ TagIdx(TagAt(p)) = s})
TransitionIncrements(k, prev, s) ==
    Cardinality({p \in Positions(k) :
                    /\ p[2] > 1
                    /\ TagIdx(TagAt(<<p[1], p[2] - 1>>)) = prev
                    /\ TagIdx(TagAt(p)) = s})

\* A row of probabilities over 0..n-1 that sums to 1: a common denominator
\* that the numerators add up to, and no zero probability.
SumsToOne(row, n) ==
    /\ n > 0
    /\ \A k \in 0..n-1 : row[k].den = row[0].den /\ row[k].num > 0
    /\ np_sum([k \in 0..n-1 |-> row[k].num], n) = row[0].den

\* C8: while counting, every cell of init, transition and emission is at least
\* the smoothing constant and holds the smoothing constant plus one unit per
\* increment of the counting rule over the sentences counted so far; once
\* normalized, init and every row of transition and of emission sum to 1.
C8_HmmTables ==
    LET T == Indexer_len(hmm_train.tag_indexer)
        W == hmm_train.emission_columns
        k == hmm_train.sentence_idx
    IN /\ hmm_train.pc = "count" =>
             \A s \in 0..T-1 :
                /\ hmm_train.init_counts[s] >= Smoothing
                /\ hmm_train.init_counts[s] = Smoothing + CountUnit * InitIncrements(k, s)
                /\ \A prev \in 0..T-1 :
                      /\ hmm_train.transition_counts[prev][s] >= Smoothing
                      /\ hmm_train.transition_counts[prev][s]
                            = Smoothing + CountUnit * TransitionIncrements(k, prev, s)
                /\ \A w \in 0..W-1 :
                      /\ hmm_train.emission_counts[s][w] >= Smoothing
                      /\ hmm_train.emission_counts[s][w]
                            = Smoothing + CountUnit * EmissionIncrements(k, s, w)
       /\ HmmNormalized =>
             /\ SumsToOne(hmm_train.probs.init, T)
             /\ \A s \in 0..T-1 :
                   /\ SumsToOne(hmm_train.probs.transition[s], T)
                   /\ SumsToOne(hmm_train.probs.emission[s], W)

\* C8 witness: a corpus of three tags or more has been counted and normalized,
\* with a rare word counted in the "UNK" column and a cell incremented twice.
C8_Witness ==
    /\ hmm_train.pc = "print_india"
    /\ Indexer_len(hmm_train.tag_indexer) >= 3
    /\ Occurrences(W_7) = 1
    /\ \E s \in 0..Indexer_len(hmm_train.tag_indexer)-1 :
          /\ hmm_train.probs.emission[s][0].num = Smoothing + CountUnit
          /\ \E prev \in 0..Indexer_len(hmm_train.tag_indexer)-1 :
                hmm_train.probs.transition[prev][s].num = Smoothing + 2 * CountUnit

----------------------------------------------------------------------------
(* train_crf_model: the forward-backward recursion of one sentence         *)
(*                                                                         *)
(* Weights and the cells of feature_matrix are integers (log domain).  The *)
(* cells of forward and backward, and Z, are held by their exponentials to *)
(* base 2, which are positive integers: adding two of them in the log      *)
(* domain multiplies the exponentials, np.logaddexp adds them, and         *)
(* np.exp(a - Z) is the quotient of the exponential of a by that of Z.     *)
(* Tables are indexed [y][x], y a tag index and x a position.              *)

np_exp(score) == Pow(2, score)
np_logaddexp(a, b) == a + b
LogAdd(a, b) == a * b

\* np.take(weights, ids) raises IndexError for an id past the last weight.
FeatureList(feature_cache, sentence_idx, x, y) == feature_cache[sentence_idx][<<x, y>>]

\* Lines 278-281.
FeatureMatrix(weights, feature_cache, sentence_idx, T, N) ==
    np_array([y \in 0..T-1 |-> np_array([x \in 0..N-1 |->
        SumWeights(weights, FeatureList(feature_cache, sentence_idx, x, y), 1)])])

\* The loop "for y_prev in range(T)" of lines 293-298, 308-313 and 315-320
\* over the terms term[0..n-1].
RECURSIVE LogSumExp(_, _)
LogSumExp(term, n) ==
    IF n = 1 THEN term[0] ELSE np_logaddexp(LogSumExp(term, n - 1), term[n - 1])

\* Lines 287-299: column x of forward from column x - 1.
ForwardColumn(feature_matrix, T, prev_column, x) ==
    LET sum == LogSumExp(prev_column, T)
    IN np_array([y \in 0..T-1 |-> LogAdd(np_exp(feature_matrix[y][x]), sum)])
RECURSIVE ForwardColumns(_, _, _, _)
ForwardColumns(feature_matrix, T, N, acc) ==
    IF acc.x >= N THEN acc.columns
    ELSE LET column == IF acc.x = 0
                       THEN np_array([y \in 0..T-1 |-> np_exp(feature_matrix[y][0])])
                       ELSE ForwardColumn(feature_matrix, T, acc.columns[acc.x - 1], acc.x)
         IN ForwardColumns(feature_matrix, T, N,
                [columns |-> (acc.x :> column) @@ acc.columns, x |-> acc.x + 1])

\* Mutant of BackwardColumn: the scores of position N - x - 1 are added, not
\* those of position N - x.
BackwardColumn_mutant(feature_matrix, T, N, next_column, x) ==
    LET sum == LogSumExp([y_prev \in 0..T-1 |->
                   LogAdd(next_column[y_prev], np_exp(feature_matrix[y_prev][N - x - 1]))], T)
    IN np_array([y \in 0..T-1 |-> sum])
\* Lines 306-314, one x: column N - x - 1 of backward from column N - x.
BackwardColumn(feature_matrix, T, N, next_column, x) ==
    LET sum == LogSumExp([y_prev \in 0..T-1 |->
                   LogAdd(next_column[y_prev], np_exp(feature_matrix[y_prev][N - x]))], T)
    IN np_array([y \in 0..T-1 |-> sum])
\* Lines 302-314: acc.x is the loop variable x (0 for the initialization).
RECURSIVE BackwardColumns(_, _, _, _)
BackwardColumns(feature_matrix, T, N, acc) ==
    IF acc.x >= N THEN acc.columns
    ELSE LET column == IF acc.x = 0 THEN np_array([y \in 0..T-1 |-> np_exp(0)])
                       ELSE BackwardColumn(feature_matrix, T, N,
                                           acc.columns[N - acc.x], acc.x)
         IN BackwardColumns(feature_matrix, T, N,
                [columns |-> ((N - acc.x - 1) :> column) @@ acc.columns, x |-> acc.x + 1])

\* Column-major tables as [y][x].
Transposed(columns, T, N) == np_array([y \in 0..T-1 |-> np_array([x \in 0..N-1 |-> columns[x][y]])])

\* Lines 283-326 for one sentence: forward, backward, Z and the numerators of pp
\* (pp[y][x] is pp_num[y][x] / Z).
ForwardBackward(feature_matrix, T, N) ==
    LET forward == Transposed(ForwardColumns(feature_matrix, T, N,
                                             [columns |-> <<>>, x |-> 0]), T, N)
        backward == Transposed(BackwardColumns(feature_matrix, T, N,
                                               [columns |-> <<>>, x |-> 0]), T, N)
        Z == LogSumExp([y \in 0..T-1 |-> forward[y][N - 1]], T)
    IN [forward |-> forward, backward |-> backward, Z |-> Z,
        pp_num |-> np_array([y \in 0..T-1 |-> np_array([x \in 0..N-1 |->
                      LogAdd(forward[y][x], backward[y][x])])])]

\* gradients[feature] += value for every feature of a list (lines 333-334 and
\* 337-338); a value is held by its numerator over Z, acc.k is the place in
\* the list.
RECURSIVE AddToCounter(_, _, _)
AddToCounter(acc, features, value) ==
    IF acc.k > Len(features) THEN acc.counter
    ELSE AddToCounter([counter |-> [acc.counter EXCEPT ![features[acc.k]] = @ + value],
                       k |-> acc.k + 1],
                      features, value)
\* Lines 335-338 for one word; acc.tag_idx is the loop variable.
RECURSIVE GradientTags(_, _, _, _, _)
GradientTags(acc, cache, T, fb, word_idx) ==
    IF acc.tag_idx >= T THEN acc.counter
    ELSE GradientTags(
           [counter |-> AddToCounter([counter |-> acc.counter, k |-> 1],
                                     cache[<<word_idx, acc.tag_idx>>],
                                     0 - fb.pp_num[acc.tag_idx][word_idx]),
            tag_idx |-> acc.tag_idx + 1],
           cache, T, fb, word_idx)
\* Lines 329-338; acc.word_idx is the loop variable.
RECURSIVE GradientWords(_, _, _, _, _, _)
GradientWords(acc, cache, gold_tags, T, N, fb) ==
    IF acc.word_idx >= N THEN acc.counter
    ELSE LET gold_tag == gold_tags[acc.word_idx]
             gold == AddToCounter([counter |-> acc.counter, k |-> 1],
                                  cache[<<acc.word_idx, gold_tag>>], fb.Z)
         IN GradientWords(
              [counter |-> GradientTags([counter |-> gold, tag_idx |-> 0],
                                        cache, T, fb, acc.word_idx),
               word_idx |-> acc.word_idx + 1],
              cache, gold_tags, T, N, fb)
\* Lines 272 and 329-338: the Counter of one sentence, filled from empty; its
\* keys are the features it was given a value for.
Gradients(feature_cache, sentence_idx, gold_tags, T, N, fb) ==
    LET keys == UNION {Range(FeatureList(feature_cache, sentence_idx, x, y)) :
                          x \in 0..N-1, y \in 0..T-1}
    IN GradientWords([counter |-> np_array([feature \in keys |-> 0]), word_idx |-> 0],
                     feature_cache[sentence_idx], gold_tags, T, N, fb)

\* Mutant of np_random_shuffle: n indices drawn with replacement.
np_random_shuffle_mutant(n) == [1..n -> 0..n-1]
\* np.random.shuffle(np.arange(n)): any order of 0..n-1.
np_random_shuffle(n) ==
    {order \in [1..n -> 0..n-1] : \A a, b \in 1..n : order[a] = order[b] => a = b}

\* Weight vectors: number 0 is all zero, the others hold 1 and 2 at the
\* features f with f % 5 = seed.
MaxWeightSeed == 1
WeightVector(n, seed) ==
    [f \in 0..n-1 |-> IF seed > 0 /\ f % 5 = seed THEN 1 + (f % 2) ELSE 0]
\* Mutant of WeightsLength: one weight short.
WeightsLength_mutant(feature_indexer) == Indexer_len(feature_indexer) - 1
\* len(feature_indexer) of line 263.
WeightsLength(feature_indexer) == Indexer_len(feature_indexer)
\* np.random.rand(n)
np_random_rand(n) == {WeightVector(n, seed) : seed \in 0..MaxWeightSeed}
\* optimizer.apply_gradient_update(gradients, 10): some weight vector of the
\* same length.
apply_gradient_update(weights, gradients, batch_size) ==
    np_random_rand(Cardinality(DOMAIN weights))

CrfNerModel(tag_indexer, feature_indexer, weights) ==
    [class |-> "CrfNerModel", tag_indexer |-> tag_indexer,
     feature_indexer |-> feature_indexer, weights |-> weights]

----------------------------------------------------------------------------
(* train_crf_model as a state machine: Initializing, FeatureCaching,       *)
(* Epoch (i + 1 of epoch), Done; and decoding with the model it returns    *)

epoch == 20
\* The corpora trained on: one, two and three sentences of one, two and three
\* tokens, over one, two and three tags; one corpus repeats a sentence.
CrfCorpora ==
    { <<S_7>>, <<S_Phil>>, <<S_PhilIndia, S_PhilIndia>>, <<S_Phil, S_PhilIndia>>,
      <<S_7, S_Phil, S_PhilIndia>> }

CrfLocals(pc) ==
    [pc |-> pc, at |-> "", tag_indexer |-> <<>>, feature_indexer |-> <<>>,
     feature_cache |-> <<>>, weights |-> <<>>, i |-> 0, train_index |-> <<>>, pos |-> 0,
     processed |-> <<>>, sentence_idx |-> -1, feature_matrix |-> <<>>, fb |-> <<>>,
     gradients |-> <<>>, used |-> {}, updates |-> 0]

TokenLists == [k \in 1..Len(sentences) |-> sentences[k].tokens]

CrfTrainInit ==
    /\ sentences \in CrfCorpora
    /\ crf_train = CrfLocals("Initializing")
    /\ hmm_train = NotTraining
    /\ sentence_tokens = <<>>
    /\ ner_model = NoModel
    /\ result = NoResult
    /\ memo = [op \in Decoders |-> <<>>]

\* Lines 246-249.
RECURSIVE TagsOfCorpus(_, _)
TagsOfCorpus(tag_indexer, corpus) ==
    IF corpus = <<>> THEN tag_indexer
    ELSE TagsOfCorpus(IndexAll(tag_indexer, get_bio_tags(Head(corpus))), Tail(corpus))
BuildTagIndexer ==
    /\ crf_train.pc = "Initializing"
    /\ crf_train' = [crf_train EXCEPT !.pc = "FeatureCaching",
                                      !.tag_indexer = TagsOfCorpus(<<>>, sentences)]
    /\ UNCHANGED <<sentences, hmm_train, dec_vars>>

\* Lines 251-265: the feature cache, then the weights and the optimizer.
AtFeatureCaching == crf_train.pc = "FeatureCaching"
CacheFeatures ==
    /\ AtFeatureCaching
    /\ LET built == BuildFeatureCache(TokenLists, crf_train.tag_indexer)
       IN \E weights \in np_random_rand(WeightsLength(built.indexer)) :
             crf_train' = [crf_train EXCEPT !.pc = "Epoch", !.at = "shuffle", !.i = 0,
                                            !.feature_indexer = built.indexer,
                                            !.feature_cache = built.cache,
                                            !.weights = weights]
    /\ UNCHANGED <<sentences, hmm_train, dec_vars>>

\* Lines 266-270.
Shuffle ==
    /\ crf_train.pc = "Epoch" /\ crf_train.at = "shuffle"
    /\ \E train_index \in np_random_shuffle(Len(sentences)) :
          crf_train' = [crf_train EXCEPT !.at = "sentence", !.train_index = train_index,
                                         !.pos = 0, !.processed = <<>>]
    /\ UNCHANGED <<sentences, hmm_train, dec_vars>>

\* Lines 271-342 for the next sentence of train_index: the feature matrix,
\* forward-backward, the gradient and one optimizer update.
AtNextSentence ==
    /\ crf_train.pc = "Epoch" /\ crf_train.at = "sentence"
    /\ crf_train.pos < Len(crf_train.train_index)
ProcessSentence ==
    /\ AtNextSentence
    /\ LET sentence_idx == crf_train.train_index[crf_train.pos + 1]
           sentence == sentences[sentence_idx + 1]
           N == Len(sentence.tokens)
           T == Indexer_len(crf_train.tag_indexer)
           used == UNION {Range(FeatureList(crf_train.feature_cache, sentence_idx, x, y)) :
                             x \in 0..N-1, y \in 0..T-1}
       IN IF ~(used \subseteq DOMAIN crf_train.weights)
          THEN crf_train' = [crf_train EXCEPT !.pc = "IndexError", !.used = used,
                                              !.sentence_idx = sentence_idx]
          ELSE LET feature_matrix == FeatureMatrix(crf_train.weights,
                                         crf_train.feature_cache, sentence_idx, T, N)
                   fb == ForwardBackward(feature_matrix, T, N)
                   gold_tags == [x \in 0..N-1 |->
                       index_of(crf_train.tag_indexer, get_bio_tags(sentence)[x + 1])]
                   gradients == Gradients(crf_train.feature_cache, sentence_idx,
                                          gold_tags, T, N, fb)
               IN \E weights \in apply_gradient_update(crf_train.weights, gradients, 10) :
                     crf_train' = [crf_train EXCEPT
                        !.sentence_idx = sentence_idx,
                        !.feature_matrix = feature_matrix,
                        !.fb = fb,
                        !.gradients = gradients,
                        !.used = used,
                        !.weights = weights,
                        !.updates = @ + 1,
                        !.processed = Append(@, sentence_idx),
                        !.pos = @ + 1]
    /\ UNCHANGED <<sentences, hmm_train, dec_vars>>

\* Lines 344-347 and the next turn of "for i in range(epoch)".
NextEpoch ==
    /\ crf_train.pc = "Epoch" /\ crf_train.at = "sentence"
    /\ crf_train.pos = Len(crf_train.train_index)
    /\ crf_train.i + 1 < epoch
    /\ crf_train' = [crf_train EXCEPT !.i = @ + 1, !.at = "shuffle"]
    /\ UNCHANGED <<sentences, hmm_train, dec_vars>>

\* Lines 344-347 of the last epoch and line 366.
ReturnCrfModel ==
    /\ crf_train.pc = "Epoch" /\ crf_train.at = "sentence"
    /\ crf_train.pos = Len(crf_train.train_index)
    /\ crf_train.i + 1 >= epoch
    /\ crf_train' = [crf_train EXCEPT !.pc = "Done"]
    /\ ner_model' = CrfNerModel(crf_train.tag_indexer, crf_train.feature_indexer,
                                crf_train.weights)
    /\ UNCHANGED <<sentences, hmm_train, sentence_tokens, result, memo>>

\* decode with the returned model, on a training sentence or on an unseen word;
\* the model holds the feature indexer of the trainer.
CrfTrainedDecode ==
    /\ crf_train.pc = "Done"
    /\ \E tokens \in {sentences[1].tokens, <<Token(W_India, "NNP")>>} :
          LET r == CrfNerModel_decode(ner_model, tokens)
          IN /\ sentence_tokens' = tokens
             /\ result' = [op |-> "CrfNerModel.decode", ret |-> r]
             /\ ner_model' = [ner_model EXCEPT !.feature_indexer = r.feature_indexer]
             /\ crf_train' = [crf_train EXCEPT !.feature_indexer = r.feature_indexer]
    /\ UNCHANGED <<sentences, hmm_train, memo>>

CrfTrainStep ==
    \/ BuildTagIndexer \/ CacheFeatures \/ Shuffle \/ ProcessSentence \/ NextEpoch
    \/ ReturnCrfModel

CrfTrainNext == CrfTrainStep \/ CrfTrainedDecode

SpecCrf == CrfTrainInit /\ [][CrfTrainNext]_vars

----------------------------------------------------------------------------
(* Properties of train_crf_model                                           *)

\* A sentence has been processed and its tables are the trainer's locals.
CrfProcessed == crf_train.pc \in {"Epoch", "Done"} /\ crf_train.updates > 0
CrfN == Len(sentences[crf_train.sentence_idx + 1].tokens)
CrfT == Indexer_len(crf_train.tag_indexer)
CrfS == Len(sentences)

\* C7: for the sentence just processed, Z is the sum over tags of the last
\* forward column; at every position the sum over tags of forward * backward
\* equals Z, so the posteriors pp (numerators over Z) sum to 1; and the sum
\* over tags of backward * potential at position 0 equals Z.
C7_ForwardBackwardConsistent ==
    CrfProcessed =>
        LET fb == crf_train.fb
            M == crf_train.feature_matrix
        IN /\ fb.Z = SumOver([y \in 0..CrfT-1 |-> fb.forward[y][CrfN - 1]], 0, CrfT - 1)
           /\ fb.Z > 0
           /\ \A x \in 0..CrfN-1 :
                 /\ SumOver([y \in 0..CrfT-1 |-> fb.forward[y][x] * fb.backward[y][x]],
                            0, CrfT - 1) = fb.Z
                 /\ SumOver([y \in 0..CrfT-1 |-> fb.pp_num[y][x]], 0, CrfT - 1) = fb.Z
           /\ SumOver([y \in 0..CrfT-1 |-> fb.backward[y][0] * np_exp(M[y][0])],
                      0, CrfT - 1) = fb.Z

\* C7 witness: a sentence of three tokens has been processed over two tags or
\* more, with scores that differ between tags and between positions.
C7_Witness ==
    /\ CrfProcessed
    /\ CrfN = 3
    /\ CrfT >= 2
    /\ crf_train.feature_matrix[0][0] # crf_train.feature_matrix[1][0]
    /\ crf_train.feature_matrix[0][1] # crf_train.feature_matrix[0][2]

\* The trainer's states in order: Initializing, FeatureCaching, Epoch 1..epoch,
\* Done.
CrfRank ==
    CASE crf_train.pc = "Initializing" -> 0
      [] crf_train.pc = "FeatureCaching" -> 1
      [] crf_train.pc = "Epoch" -> 2 + crf_train.i
      [] crf_train.pc = "Done" -> 2 + epoch
      [] OTHER -> -1
IsPermutation(order, n) ==
    Len(order) = n /\ \A idx \in 0..n-1 : Cardinality({k \in 1..n : order[k] = idx}) = 1
SentenceFeatures(sentence_idx) ==
    UNION {Range(crf_train.feature_cache[sentence_idx][cell]) :
              cell \in DOMAIN crf_train.feature_cache[sentence_idx]}

\* How far the trainer is: the state, then the place within the epoch.
CrfProgress ==
    CrfRank * (CrfS + 2) + (IF crf_train.at = "sentence" THEN 1 + crf_train.pos ELSE 0)

C9_EpochInvariant ==
    /\ CrfRank \in 0..(2 + epoch)
    /\ crf_train.pc # "Done" =>
          \/ AtFeatureCaching
          \/ AtNextSentence
          \/ ENABLED (BuildTagIndexer \/ Shuffle \/ NextEpoch \/ ReturnCrfModel)
    /\ crf_train.pc = "Epoch" =>
          /\ crf_train.i \in 0..epoch-1
          /\ crf_train.at = "shuffle" => crf_train.updates = crf_train.i * CrfS
          /\ crf_train.at = "sentence" =>
                /\ IsPermutation(crf_train.train_index, CrfS)
                /\ crf_train.processed = SubSeq(crf_train.train_index, 1, crf_train.pos)
                /\ crf_train.updates = crf_train.i * CrfS + crf_train.pos
                /\ crf_train.pos > 0 =>
                      /\ crf_train.sentence_idx = crf_train.train_index[crf_train.pos]
                      /\ DOMAIN crf_train.gradients
                            = SentenceFeatures(crf_train.sentence_idx)
    /\ crf_train.pc = "Done" =>
          /\ crf_train.updates = epoch * CrfS
          /\ IsPermutation(crf_train.processed, CrfS)

C9_EpochStep ==
    /\ CrfRank' \in {CrfRank, CrfRank + 1}
    /\ crf_train.pc # "Done" => CrfProgress' > CrfProgress
    /\ crf_train'.updates \in {crf_train.updates, crf_train.updates + 1}
    /\ crf_train'.updates = crf_train.updates + 1 =>
          /\ crf_train.pc = "Epoch"
          /\ crf_train'.processed
                = Append(crf_train.processed, crf_train.train_index[crf_train.pos + 1])
    /\ (crf_train.pc = "Epoch" /\ CrfRank' = CrfRank + 1) =>
          IsPermutation(crf_train.processed, CrfS)

\* C9: the trainer goes through Initializing, FeatureCaching, Epoch 1..epoch
\* and Done in that order; within an epoch the sentences are processed in the
\* shuffled order, a permutation of all sentence indices, each with a
\* gradient accumulator holding only its own features and each followed by
\* one optimizer update; an epoch ends only when every sentence has been
\* processed; before Done the trainer always has a next step (feature
\* caching, the next sentence, or a step that is enabled) and every step
\* takes it further, so it reaches Done, after exactly epoch * (number of
\* sentences) updates.
C9_TrainerProgress ==
    /\ []C9_EpochInvariant
    /\ [][C9_EpochStep]_vars

\* C9 witness: training of a corpus of three sentences is Done.
C9_Witness ==
    /\ crf_train.pc = "Done"
    /\ CrfS = 3
    /\ crf_train.updates = 3 * epoch

C10_VocabularyMatchesWeights ==
    /\ crf_train.pc # "IndexError"
    /\ crf_train.pc \in {"Epoch", "Done"} =>
          /\ DOMAIN crf_train.weights = 0..Indexer_len(crf_train.feature_indexer)-1
          /\ crf_train.used \subseteq DOMAIN crf_train.weights
    /\ (crf_train.pc = "Done" /\ result # NoResult) =>
          /\ result.ret.status = "ok"
          /\ DOMAIN ner_model.weights = 0..Indexer_len(ner_model.feature_indexer)-1
          /\ result.ret.used \subseteq DOMAIN ner_model.weights

C10_VocabularyFrozen ==
    crf_train.pc # "FeatureCaching" =>
        /\ crf_train'.feature_indexer = crf_train.feature_indexer
        /\ ner_model.class = "CrfNerModel" =>
              ner_model'.feature_indexer = ner_model.feature_indexer

\* C10: outside FeatureCaching no step of the trainer and no decode changes the
\* feature vocabulary; from the first epoch on the vocabulary size is the
\* length of the weight vector, and every feature id used to index the
\* weights, by an epoch step or by decode, is one of 0..len(weights)-1.
C10_FeatureVocabulary ==
    /\ []C10_VocabularyMatchesWeights
    /\ [][C10_VocabularyFrozen]_vars

\* C10 witness: the returned model has decoded the unseen word "India": some
\* of the feature names offered were known and some were dropped.
C10_Witness ==
    /\ crf_train.pc = "Done"
    /\ result # NoResult
    /\ sentence_tokens = <<Token(W_India, "NNP")>>
    /\ result.ret.used # {}
    /\ Cardinality(result.ret.used) < 14 * Indexer_len(ner_model.tag_indexer)
    /\ Indexer_len(ner_model.feature_indexer) > 14

====
